---- MODULE Spec2Model ----
(***************************************************************************)
(* Model of payslip_generator.py: the PDF renderer create_payslip_pdf with *)
(* its page-break helper check_page, the module-level totals computation   *)
(* and the amount formatter format_amount.                                 *)
(*                                                                         *)
(* Lengths are in hundredths of a point, so that the A4 page height        *)
(* (841.89 pt) and every offset of the code (whole points) are integers.   *)
(* Every offset the code subtracts is a whole number of points, so the     *)
(* comparison y < 80 of check_page is decided exactly as in the code.      *)
(* Allowances, deductions and benefits are identified by their 0-based     *)
(* index in the record's sequences.                                        *)
(***************************************************************************)
EXTENDS Integers, Sequences, FiniteSets, TLC

VARIABLES
    data,      \* the record handed to create_payslip_pdf, with logo_bytes
    pc,        \* position of create_payslip_pdf
    y,         \* the vertical cursor
    page,      \* number of the page being drawn (showPage calls + 1)
    i,         \* index of the running for loop
    ops,       \* the draw operations emitted so far, in order
    totals,    \* the module-level totals computation: inputs and results
    fmt        \* one call of format_amount: arguments and result

vars == <<data, pc, y, page, i, ops, totals, fmt>>

----------------------------------------------------------------------------
(* Bounds of the model *)

MaxAddr == 3
MaxAllow == 40
MaxDed == 4
MaxBen == 2
MaxAddrLong == 50
MaxItems == 2

(* Program constants *)

Height == 84189
Threshold == 8000
FormMax == 10

Pt(n) == n * 100

LogoKinds == {"none", "valid", "undecodable"}

NoTotals == [state |-> "idle"]
NoFmt == [state |-> "idle"]

----------------------------------------------------------------------------
(* create_payslip_pdf *)

check_page_never(yy) == [y |-> yy, showPage |-> FALSE]

check_page_eager(yy) ==
    IF yy < Pt(600) THEN [y |-> Height - Pt(80), showPage |-> TRUE]
    ELSE [y |-> yy, showPage |-> FALSE]

check_page(yy) ==
    IF yy < Threshold THEN [y |-> Height - Pt(80), showPage |-> TRUE]
    ELSE [y |-> yy, showPage |-> FALSE]

Row(kind, idx, ded, pg, yy) ==
    [kind |-> kind, idx |-> idx, ded |-> ded, page |-> pg, y |-> yy]

\* The right-hand cell of ledger row r: deductions[r] when len(deductions) > r.
DeductionCell(r) == IF data.nDed > r THEN r ELSE -1

AllowanceRowLost(k, pg, yy) ==
    IF yy = Height - Pt(80) THEN << >>
    ELSE << Row("allowance", k, DeductionCell(2 + k), pg, yy) >>

AllowanceRow(k, pg, yy) ==
    << Row("allowance", k, DeductionCell(2 + k), pg, yy) >>

DrawHeader ==
    /\ pc = "header"
    /\ ops' = Append(ops, Row("header_band", -1, -1, page, Height - Pt(80)))
    /\ y' = Height - Pt(110)
    /\ pc' = "company"
    /\ UNCHANGED <<data, page, i, totals, fmt>>

DrawCompanyName ==
    /\ pc = "company"
    /\ ops' = Append(ops, Row("company_name", -1, -1, page, y))
    /\ y' = y - Pt(14)
    /\ i' = 0
    /\ pc' = "address"
    /\ UNCHANGED <<data, page, totals, fmt>>

DrawAddressLine ==
    /\ pc = "address"
    /\ i < data.nAddr
    /\ ops' = Append(ops, Row("address", i, -1, page, y))
    /\ y' = y - Pt(12)
    /\ i' = i + 1
    /\ UNCHANGED <<data, pc, page, totals, fmt>>

DrawPhone ==
    /\ pc = "address"
    /\ i = data.nAddr
    /\ ops' = Append(ops, Row("phone", -1, -1, page, y))
    /\ pc' = "employee"
    /\ UNCHANGED <<data, y, page, i, totals, fmt>>

DrawEmployeeInfo ==
    /\ pc = "employee"
    /\ ops' = ops \o << Row("employee_heading", -1, -1, page, y - Pt(24)),
                        Row("employee_name_id", -1, -1, page, y - Pt(24) - Pt(18)),
                        Row("employee_position_period", -1, -1, page,
                            y - Pt(24) - Pt(18) - Pt(14)) >>
    /\ y' = y - Pt(24) - Pt(18) - Pt(14)
    /\ pc' = "ledger_heading"
    /\ UNCHANGED <<data, page, i, totals, fmt>>

DrawLedgerHeading ==
    /\ pc = "ledger_heading"
    /\ LET cp == check_page(y - Pt(28))
           pg == IF cp.showPage THEN page + 1 ELSE page
       IN /\ ops' = Append(ops, Row("ledger_heading", -1, -1, pg, cp.y))
          /\ y' = cp.y - Pt(14)
          /\ page' = pg
    /\ pc' = "base"
    /\ UNCHANGED <<data, i, totals, fmt>>

DrawBaseSalary ==
    /\ pc = "base"
    /\ ops' = Append(ops, Row("base", -1, IF data.nDed > 0 THEN 0 ELSE -1, page, y))
    /\ LET cp == check_page(y - Pt(14))
       IN /\ y' = cp.y
          /\ page' = IF cp.showPage THEN page + 1 ELSE page
    /\ pc' = "ot"
    /\ UNCHANGED <<data, i, totals, fmt>>

DrawOvertime ==
    /\ pc = "ot"
    /\ ops' = Append(ops, Row("ot", -1, IF data.nDed > 1 THEN 1 ELSE -1, page, y))
    /\ LET cp == check_page(y - Pt(14))
       IN /\ y' = cp.y
          /\ page' = IF cp.showPage THEN page + 1 ELSE page
    /\ i' = 0
    /\ pc' = "allowances"
    /\ UNCHANGED <<data, totals, fmt>>

DrawAllowance ==
    /\ pc = "allowances"
    /\ i < data.nAllow
    /\ ops' = ops \o AllowanceRow(i, page, y)
    /\ LET cp == check_page(y - Pt(14))
       IN /\ y' = cp.y
          /\ page' = IF cp.showPage THEN page + 1 ELSE page
    /\ i' = i + 1
    /\ UNCHANGED <<data, pc, totals, fmt>>

DrawTotals ==
    /\ pc = "allowances"
    /\ i = data.nAllow
    /\ ops' = Append(ops, Row("totals", -1, -1, page, y - Pt(10)))
    /\ y' = y - Pt(10) - Pt(22)
    /\ pc' = "netpay"
    /\ UNCHANGED <<data, page, i, totals, fmt>>

DrawNetPay ==
    /\ pc = "netpay"
    /\ ops' = Append(ops, Row("netpay", -1, -1, page, y))
    /\ LET cp == check_page(y - Pt(30))
       IN /\ y' = cp.y
          /\ page' = IF cp.showPage THEN page + 1 ELSE page
    /\ pc' = "benefits_heading"
    /\ UNCHANGED <<data, i, totals, fmt>>

DrawBenefitsHeading ==
    /\ pc = "benefits_heading"
    /\ ops' = Append(ops, Row("benefits_heading", -1, -1, page, y))
    /\ y' = y - Pt(16)
    /\ i' = 0
    /\ pc' = "benefits"
    /\ UNCHANGED <<data, page, totals, fmt>>

DrawBenefit ==
    /\ pc = "benefits"
    /\ i < data.nBen
    /\ ops' = Append(ops, Row("benefit", i, -1, page, y))
    /\ LET cp == check_page(y - Pt(12))
       IN /\ y' = cp.y
          /\ page' = IF cp.showPage THEN page + 1 ELSE page
    /\ i' = i + 1
    /\ UNCHANGED <<data, pc, totals, fmt>>

DrawNonFinancialHeading ==
    /\ pc = "benefits"
    /\ i = data.nBen
    /\ ops' = Append(ops, Row("nonfinancial_heading", -1, -1, page, y))
    /\ y' = y - Pt(16)
    /\ i' = 0
    /\ pc' = "nonfinancial"
    /\ UNCHANGED <<data, page, totals, fmt>>

DrawNonFinancialBenefit ==
    /\ pc = "nonfinancial"
    /\ i < data.nBen
    /\ ops' = Append(ops, Row("nonfinancial_benefit", i, -1, page, y))
    /\ LET cp == check_page(y - Pt(12))
       IN /\ y' = cp.y
          /\ page' = IF cp.showPage THEN page + 1 ELSE page
    /\ i' = i + 1
    /\ UNCHANGED <<data, pc, totals, fmt>>

Save ==
    /\ pc = "nonfinancial"
    /\ i = data.nBen
    /\ pc' = "done"
    /\ UNCHANGED <<data, y, page, i, ops, totals, fmt>>

Records(addr, allow, ded, ben, logos) ==
    [nAddr : addr, nAllow : allow, nDed : ded, nBen : ben, logo : logos]

RenderStart ==
    /\ pc = "header"
    /\ y = Height
    /\ page = 1
    /\ i = 0
    /\ ops = << >>
    /\ totals = NoTotals
    /\ fmt = NoFmt

Init ==
    /\ data \in Records(1..MaxAddr, 0..MaxAllow, 0..MaxDed, 0..MaxBen, LogoKinds)
    /\ RenderStart

Init30 ==
    /\ data \in Records(1..MaxAddrLong, {30}, 0..FormMax, 0..FormMax, {"none"})
    /\ RenderStart

InitLongAddress ==
    /\ data \in Records(1..MaxAddrLong, 0..1, 0..1, 0..1, LogoKinds)
    /\ RenderStart

Next ==
    \/ DrawHeader
    \/ DrawCompanyName
    \/ DrawAddressLine
    \/ DrawPhone
    \/ DrawEmployeeInfo
    \/ DrawLedgerHeading
    \/ DrawBaseSalary
    \/ DrawOvertime
    \/ DrawAllowance
    \/ DrawTotals
    \/ DrawNetPay
    \/ DrawBenefitsHeading
    \/ DrawBenefit
    \/ DrawNonFinancialHeading
    \/ DrawNonFinancialBenefit
    \/ Save

Spec == Init /\ [][Next]_vars

SpecThirty ==
    Init30 /\ [][Next]_vars

SpecLongAddress ==
    InitLongAddress /\ [][Next]_vars

----------------------------------------------------------------------------
(* Module-level totals computation *)

AmountSeqs(S) == UNION {[1..n -> S] : n \in 0..MaxItems}

\* Python's sum(): left to right, starting from 0.
RECURSIVE sum_from(_, _, _)
sum_from(s, k, acc) ==
    IF k > Len(s) THEN acc ELSE sum_from(s, k + 1, acc + s[k])

sum(s) == sum_from(s, 1, 0)

ot_amount(t) == t.ot_hours * t.ot_rate

total_allowances(t) == sum(t.allowances)

total_deductions(t) == sum(t.deductions)

total_earnings_with_benefits(t) ==
    t.base_salary + ot_amount(t) + total_allowances(t) + sum(t.benefits)

total_earnings(t) == t.base_salary + ot_amount(t) + total_allowances(t)

net_pay(t) == total_earnings(t) - total_deductions(t)

ComputeTotals ==
    /\ totals.state = "input"
    /\ totals' = [state |-> "computed",
                  base_salary |-> totals.base_salary,
                  ot_hours |-> totals.ot_hours,
                  ot_rate |-> totals.ot_rate,
                  allowances |-> totals.allowances,
                  deductions |-> totals.deductions,
                  benefits |-> totals.benefits,
                  ot_amount |-> ot_amount(totals),
                  total_allowances |-> total_allowances(totals),
                  total_deductions |-> total_deductions(totals),
                  total_earnings |-> total_earnings(totals),
                  net_pay |-> net_pay(totals)]
    /\ UNCHANGED <<data, pc, y, page, i, ops, fmt>>

RenderIdle ==
    /\ data = [nAddr |-> 1, nAllow |-> 0, nDed |-> 0, nBen |-> 0, logo |-> "none"]
    /\ pc = "idle"
    /\ y = Height
    /\ page = 1
    /\ i = 0
    /\ ops = << >>

InitTotals ==
    /\ RenderIdle
    /\ fmt = NoFmt
    /\ totals \in [state : {"input"},
                   base_salary : {0, 3000},
                   ot_hours : {0, 10},
                   ot_rate : {0, 20},
                   allowances : AmountSeqs({0, 500}),
                   deductions : AmountSeqs({0, 300}),
                   benefits : AmountSeqs({0, 100})]

NextTotals == ComputeTotals

SpecTotals == InitTotals /\ [][NextTotals]_vars

----------------------------------------------------------------------------
(* format_amount.  A string is a sequence of characters; the pound and euro  *)
(* signs are the characters "POUND" and "EURO".  A numeric amount is given   *)
(* in hundredths (cents); other arguments are strings or None.               *)

Currencies == {"IDR", "SGD", "USD", "GBP", "EUR"}

CURRENCY_SYMBOLS(c) ==
    CASE c = "IDR" -> << "R", "p" >>
      [] c = "SGD" -> << "S", "$" >>
      [] c = "USD" -> << "$" >>
      [] c = "GBP" -> << "POUND" >>
      [] c = "EUR" -> << "EURO" >>

DigitChars == << "0", "1", "2", "3", "4", "5", "6", "7", "8", "9" >>

RECURSIVE Digits(_)
Digits(n) ==
    IF n < 10 THEN << DigitChars[n + 1] >>
    ELSE Digits(n \div 10) \o << DigitChars[(n % 10) + 1] >>

\* The "," option of a format specification: a comma every three digits.
RECURSIVE GroupThousands(_)
GroupThousands(d) ==
    IF Len(d) <= 3 THEN d
    ELSE GroupThousands(SubSeq(d, 1, Len(d) - 3)) \o << "," >>
         \o SubSeq(d, Len(d) - 2, Len(d))

Replace(s, a, b) == [k \in 1..Len(s) |-> IF s[k] = a THEN b ELSE s[k]]

Abs(n) == IF n < 0 THEN -n ELSE n

Sign(n) == IF n < 0 THEN << "-" >> ELSE << >>

\* int(round(value)): round half to even, in whole units.
RoundHalfEven(cents) ==
    LET a == Abs(cents)
        q == a \div 100
        r == a % 100
        m == IF r > 50 \/ (r = 50 /\ q % 2 = 1) THEN q + 1 ELSE q
    IN IF cents < 0 THEN -m ELSE m

\* f"{integer:,}"
FormatInt(n) == Sign(n) \o GroupThousands(Digits(Abs(n)))

\* f"{value:,.2f}"
FormatFixed2(cents) ==
    Sign(cents) \o GroupThousands(Digits(Abs(cents) \div 100)) \o << "." >>
    \o << DigitChars[((Abs(cents) % 100) \div 10) + 1],
          DigitChars[(Abs(cents) % 10) + 1] >>

\* str() of a float with at most two decimals: the shortest decimal that
\* reads back, with at least one digit after the point.
FloatStr(cents) ==
    Sign(cents) \o Digits(Abs(cents) \div 100) \o << "." >>
    \o (IF Abs(cents) % 10 = 0
        THEN << DigitChars[((Abs(cents) % 100) \div 10) + 1] >>
        ELSE << DigitChars[((Abs(cents) % 100) \div 10) + 1],
                DigitChars[(Abs(cents) % 10) + 1] >>)

v_is_number(v) == v.t = "float"

\* f"{value}"
Str(v) ==
    CASE v.t = "float" -> FloatStr(v.cents)
      [] v.t = "str" -> v.s
      [] v.t = "none" -> << "N", "o", "n", "e" >>

format_amount(value, currency, number_format) ==
    IF currency = "IDR"
    THEN IF v_is_number(value)
         THEN LET s == FormatInt(RoundHalfEven(value.cents))
              IN CURRENCY_SYMBOLS(currency) \o << " " >>
                 \o (IF number_format = "EU" THEN Replace(s, ",", ".") ELSE s)
         ELSE Str(value)
    ELSE IF v_is_number(value) /\ currency \in Currencies
         THEN LET s == FormatFixed2(value.cents)
              IN CURRENCY_SYMBOLS(currency) \o << " " >>
                 \o (IF number_format = "EU"
                     THEN Replace(Replace(Replace(s, ",", "X"), ".", ","), "X", ".")
                     ELSE s)
         ELSE Str(value)

CallFormatAmount ==
    /\ fmt.state = "called"
    /\ fmt' = [state |-> "returned",
               value |-> fmt.value,
               currency |-> fmt.currency,
               number_format |-> fmt.number_format,
               result |-> format_amount(fmt.value, fmt.currency, fmt.number_format)]
    /\ UNCHANGED <<data, pc, y, page, i, ops, totals>>

Floats ==
    {[t |-> "float", cents |-> s * (w * 100 + f)] :
        s \in {1, -1}, w \in {0, 2, 3, 12, 999, 1000, 1234567}, f \in {0, 5, 50, 89}}

Strings ==
    {[t |-> "str", s |-> x] : x \in {<< >>, << "a", "b", "c" >>, << "1", "2" >>}}

Values == Floats \cup Strings \cup {[t |-> "none"]}

InitFormat ==
    /\ RenderIdle
    /\ totals = NoTotals
    /\ fmt \in [state : {"called"},
                value : Values,
                currency : Currencies \cup {"JPY", ""},
                number_format : {"US", "EU"}]

NextFormat == CallFormatAmount

SpecFormat == InitFormat /\ [][NextFormat]_vars

----------------------------------------------------------------------------
(* Properties *)

Rows(kinds) == SelectSeq(ops, LAMBDA r : r.kind \in kinds)

\* The rows of the paginated sections: ledger, totals, net pay, benefits.
SectionKinds ==
    {"ledger_heading", "base", "ot", "allowance", "totals", "netpay",
     "benefits_heading", "benefit", "nonfinancial_heading", "nonfinancial_benefit"}

\* The ledger row a draw operation belongs to (-1: not a ledger row).
LedgerRow(r) ==
    CASE r.kind = "base" -> 0
      [] r.kind = "ot" -> 1
      [] r.kind = "allowance" -> 2 + r.idx
      [] OTHER -> -1

AfterLedger ==
    pc \in {"netpay", "benefits_heading", "benefits", "nonfinancial", "done"}

EmptyRecord == data.nAllow = 0 /\ data.nDed = 0 /\ data.nBen = 0

\* C1: no row of the ledger, totals, net-pay or benefits sections is ever
\* drawn with the cursor below the threshold (y < 80): the space check
\* precedes every emitted row.
C1_NoRowBelowThreshold ==
    \A k \in DOMAIN ops :
        ops[k].kind \in SectionKinds => ops[k].y >= Threshold

\* C2: when the finished document has more than one page, the header band
\* has been drawn on every one of its pages.
C2_HeaderOnEveryPage ==
    (pc = "done" /\ page > 1) =>
        \A p \in 1..page :
            \E k \in DOMAIN ops : ops[k].kind = "header_band" /\ ops[k].page = p

\* C3: the ledger pairs rows positionally: a ledger row r shows deduction r
\* exactly when the record has one, and every deduction of the record is
\* drawn exactly once, in the row equal to its index.
C3_EveryDeductionInItsRow ==
    pc = "done" =>
        /\ \A k \in DOMAIN ops :
               LedgerRow(ops[k]) >= 0 =>
                   ops[k].ded = (IF data.nDed > LedgerRow(ops[k])
                                 THEN LedgerRow(ops[k]) ELSE -1)
        /\ \A d \in 0..(data.nDed - 1) :
               /\ Cardinality({k \in DOMAIN ops : ops[k].ded = d}) = 1
               /\ \A k \in DOMAIN ops : ops[k].ded = d => LedgerRow(ops[k]) = d

\* C4: the finished document holds exactly one row per benefit of the
\* record: n benefits give n benefit rows, each benefit once, in order.
C4_OneRowPerBenefit ==
    pc = "done" =>
        LET b == Rows({"benefit", "nonfinancial_benefit"})
        IN /\ Len(b) = data.nBen
           /\ \A k \in 1..Len(b) : b[k].idx = k - 1

\* C5: every allowance is drawn exactly once and in the order of the
\* allowances sequence, whatever page breaks fall inside the list: the
\* allowance rows drawn so far are allowances 0, 1, 2, ... without gap or
\* repetition, on pages that never go back, and all of them once the
\* ledger is finished.
C5_AllowancesOnceInOrder ==
    LET a == Rows({"allowance"})
    IN /\ \A k \in 1..Len(a) : a[k].idx = k - 1
       /\ \A k \in 1..(Len(a) - 1) : a[k].page <= a[k + 1].page
       /\ (pc = "allowances" => Len(a) = i)
       /\ (AfterLedger => Len(a) = data.nAllow)

\* C5 witness: a finished render with a page break inside the allowance list.
C5_Witness ==
    LET a == Rows({"allowance"})
    IN /\ pc = "done"
       /\ \E k \in 1..(Len(a) - 1) : a[k].page < a[k + 1].page

\* C6 as claimed: every record with 30 allowances, an address of at least
\* one line and 0 to 10 deductions and benefits takes a page break.
C6_ThirtyAllowancesMultiPage ==
    (pc = "done" /\ data.nAllow = 30 /\ data.nAddr >= 1
        /\ data.nDed \in 0..FormMax /\ data.nBen \in 0..FormMax)
    => page > 1

\* C6 amended: a record with 30 allowances takes a page break when it has
\* at least one benefit or a company address of at least three lines.
C6_ThirtyAllowancesMultiPageAmended ==
    (pc = "done" /\ data.nAllow = 30
        /\ data.nDed \in 0..FormMax /\ data.nBen \in 0..FormMax
        /\ (data.nBen >= 1 \/ data.nAddr >= 3))
    => page > 1

\* C6 witness: 30 allowances, a one-line address and one benefit end on a
\* second page.
C6_Witness ==
    /\ pc = "done"
    /\ data.nAllow = 30
    /\ data.nAddr = 1
    /\ data.nBen = 1
    /\ page = 2

SinglePageEmpty ==
    /\ page = 1
    /\ Len(Rows({"allowance", "benefit", "nonfinancial_benefit"})) = 0
    /\ \A k \in DOMAIN ops : ops[k].ded = -1 /\ ops[k].page = 1
    /\ \A kind \in {"base", "ot", "totals", "netpay"} : Len(Rows({kind})) = 1

\* C7 as claimed: a record with 0 allowances, 0 deductions and 0 benefits
\* renders on a single page: no page break, no allowance, deduction or
\* benefit row, and base salary, overtime, totals and net pay on page 1.
C7_EmptyRecordSinglePage ==
    (pc = "done" /\ EmptyRecord) => SinglePageEmpty

\* C7 amended: the same, for a record whose company address has at most
\* 37 lines.
C7_EmptyRecordSinglePageAmended ==
    (pc = "done" /\ EmptyRecord /\ data.nAddr <= 37) => SinglePageEmpty

\* C7 witness: an empty record with a 37-line address, rendered on one page.
C7_Witness ==
    /\ pc = "done"
    /\ EmptyRecord
    /\ data.nAddr = 37
    /\ page = 1
    /\ Len(Rows({"netpay"})) = 1

\* The sum of a sequence, taken from its last element.
RECURSIVE SumOf(_)
SumOf(s) ==
    IF s = << >> THEN 0 ELSE SumOf(SubSeq(s, 1, Len(s) - 1)) + s[Len(s)]

ExampleEarnings ==
    /\ totals.base_salary = 3000
    /\ totals.ot_hours = 10
    /\ totals.ot_rate = 20
    /\ totals.allowances = << 500 >>

\* C8: the derived totals satisfy overtime = hours x rate, total earnings =
\* base + overtime + sum of allowances, total deductions = sum of
\* deductions, net pay = total earnings - total deductions (3700 and 3400
\* in the example); benefits contribute to no total.
C8_TotalsIdentities ==
    totals.state = "computed" =>
        /\ totals.ot_amount = totals.ot_hours * totals.ot_rate
        /\ totals.total_earnings =
               totals.base_salary + totals.ot_amount + SumOf(totals.allowances)
        /\ totals.total_deductions = SumOf(totals.deductions)
        /\ totals.net_pay = totals.total_earnings - totals.total_deductions
        /\ (ExampleEarnings =>
               /\ totals.total_earnings = 3700
               /\ (totals.deductions = << 300 >> => totals.net_pay = 3400))

\* C8 witness: the example record, with benefits of non-zero amount.
C8_Witness ==
    /\ totals.state = "computed"
    /\ ExampleEarnings
    /\ totals.deductions = << 300 >>
    /\ totals.benefits = << 100, 100 >>
    /\ totals.net_pay = 3400

Malformed ==
    fmt.currency \notin Currencies \/ ~v_is_number(fmt.value)

\* C9: for an invalid currency code or a non-numeric amount, format_amount
\* returns a non-empty string, the plain rendering of the raw value.
C9_FallbackNonEmpty ==
    (fmt.state = "returned" /\ Malformed) =>
        /\ fmt.result # << >>
        /\ fmt.result = Str(fmt.value)

\* C10: a logo that decodes to a valid image is drawn in the header band of
\* the finished document; without a logo, or with an undecodable one, the
\* render completes without drawing a logo.
C10_LogoEmbedded ==
    pc = "done" =>
        (data.logo = "valid" <=>
            \E k \in DOMAIN ops : ops[k].kind = "logo" /\ ops[k].page = 1)

====
